---- MODULE Spec2Model ----
(***************************************************************************)
(* Turn-taking and audio arbitration of the BlindVision web assistant      *)
(* (src/web/app.js, class BlindVisionApp).  The browser is single-threaded *)
(* and callback driven: every action below is one callback (or one run of  *)
(* an async function between two awaits) executed to completion.           *)
(***************************************************************************)
EXTENDS Naturals, Integers, Sequences, FiniteSets, Bags, TLC

\* ------------------------------------------------------------------ bounds
MaxTexts == 3        \* texts handed to speak() by the application in one run
MaxTimers == 3       \* setTimeout callbacks pending at the same time
MaxEvents == 2       \* user actions with an effect, and injected failures, in one run
MaxAffix == 2        \* words before / after the core of a generated transcript
MaxQueueTexts == 5   \* texts handed to speak() in a run of the output path alone

\* ------------------------------------------------------------- the program
VARIABLES
    env,                    \* the platform the page runs on (fixed per run)
    hasStarted,             \* this.hasStarted
    isPlaying,              \* this.isPlaying
    isListening,            \* this.isListening
    continuousListening,    \* this.continuousListening
    speechQueue,            \* this.speechQueue
    currentAudio,           \* this.currentAudio (the text it plays, or NoText)
    mobileRestartInterval,  \* this.mobileRestartInterval is set
    intervals,              \* setInterval timers created and not cleared
    videoReady,             \* this.video.videoWidth is non-zero
    rec,                    \* the SpeechRecognition object's own state
    audios,                 \* Audio elements that are loading or playing
    utterance,              \* the SpeechSynthesisUtterance being spoken
    cancelled,              \* utterances cancelled, their error event pending
    timers,                 \* pending setTimeout callbacks (a bag)
    speakCalls,             \* speak() calls suspended at an await
    queries,                \* askAboutScene() calls awaiting fetch
    nextId,                 \* next fresh text identity
    events,                 \* user actions and injected failures so far
    logging,                \* whether playLog and enqLog are recorded
    playLog,                \* texts in the order their playback started
    enqLog,                 \* texts in the order they were first queued
    heard                   \* a final result the recognizer holds (FilterSpec)

vars == << env, hasStarted, isPlaying, isListening, continuousListening,
           speechQueue, currentAudio, mobileRestartInterval, intervals,
           videoReady, rec, audios, utterance, cancelled, timers, speakCalls,
           queries, nextId, events, logging, playLog, enqLog, heard >>

\* A text handed to speak(): what it says and which call produced it.
Text(kind, id) == [kind |-> kind, id |-> id]
NoText == Text("none", 0)

\* ------------------------------------------------------- strings, as atoms
\* A string is a sequence of atoms; an atom is a run of characters that the
\* code never looks inside (a word, a word fragment, or one space).
SP == " "

RECURSIVE TrimLeft(_)
TrimLeft(str) ==
    IF str # << >> /\ Head(str) = SP THEN TrimLeft(Tail(str)) ELSE str

RECURSIVE TrimRight(_)
TrimRight(str) ==
    IF str # << >> /\ str[Len(str)] = SP
    THEN TrimRight(SubSeq(str, 1, Len(str) - 1)) ELSE str

Trim(str) == TrimRight(TrimLeft(str))

LowerAtom(a) ==
    CASE a = "What" -> "what"
      [] a = "Help" -> "help"
      [] a = "Room" -> "room"
      [] a = "Wearing" -> "wearing"
      [] OTHER -> a

ToLowerCase(str) == [i \in 1..Len(str) |-> LowerAtom(str[i])]

\* String.prototype.split(' '): the pieces between single spaces, empty
\* pieces included; a piece is itself a sequence of atoms.
RECURSIVE SplitFrom(_, _, _)
SplitFrom(str, i, piece) ==
    IF i > Len(str) THEN << piece >>
    ELSE IF str[i] = SP THEN << piece >> \o SplitFrom(str, i + 1, << >>)
    ELSE SplitFrom(str, i + 1, Append(piece, str[i]))

Split(str) == SplitFrom(str, 1, << >>)

\* String.prototype.includes: needle occurs as a contiguous run.
Includes(str, needle) ==
    \E i \in 0..(Len(str) - Len(needle)) :
        \A j \in 1..Len(needle) : str[i + j] = needle[j]

\* Array.prototype.includes on the array of words.
WordsInclude(words, q) == \E i \in 1..Len(words) : words[i] = << q >>

questionWords ==
    { "where", "what", "how", "can", "do", "is", "find", "see", "help",
      "color", "glasses", "backpack", "bag" }

EchoPhrases ==
    { << "the", SP, "person", SP, "on", SP, "the", SP, "left" >>,
      << "wearing", SP, "glasses", SP, "and" >>,
      << "room", SP, "with" >> }

IsEchoCaseSensitive(transcript) ==
    \E p \in EchoPhrases : Includes(transcript, p)

IsEcho(transcript) ==
    \E p \in EchoPhrases : Includes(ToLowerCase(transcript), p)

EnoughWordsOffByOne(words, hasQuestionWord) ==
    Len(words) >= 3 \/ (hasQuestionWord /\ Len(words) > 1)

EnoughWords(words, hasQuestionWord) ==
    Len(words) > 3 \/ (hasQuestionWord /\ Len(words) > 1)

\* The condition of line 135 on the trimmed transcript of a final result.
FilterAccepts(transcript) ==
    LET words == Split(ToLowerCase(transcript))
        hasQuestionWord == \E q \in questionWords : WordsInclude(words, q)
    IN  ~IsEcho(transcript) /\ EnoughWords(words, hasQuestionWord)

\* ------------------------------------------------------------ state record
\* The handlers are written as functions from state to state, so that one
\* callback can call another (speak calls stopAllAudio, ...).
St ==
    [ hasStarted |-> hasStarted, isPlaying |-> isPlaying,
      isListening |-> isListening,
      continuousListening |-> continuousListening,
      speechQueue |-> speechQueue, currentAudio |-> currentAudio,
      mobileRestartInterval |-> mobileRestartInterval,
      intervals |-> intervals,
      videoReady |-> videoReady, rec |-> rec, audios |-> audios,
      utterance |-> utterance, cancelled |-> cancelled, timers |-> timers,
      speakCalls |-> speakCalls, queries |-> queries, nextId |-> nextId,
      events |-> events, playLog |-> playLog, enqLog |-> enqLog ]

Timer(kind, text) == [kind |-> kind, text |-> text]

SetTimeout(s, kind, text) ==
    [s EXCEPT !.timers = @ (+) SetToBag({Timer(kind, text)})]

InSeq(x, q) == \E i \in 1..Len(q) : q[i] = x

\* ------------------------------------------------- the SpeechRecognition port
\* rec: "idle" | "starting" (start() called, onstart pending) | "active" |
\*      "stopping" (stopped or failed, onend pending).
RecStop(s) ==
    IF s.rec \in {"starting", "active"} THEN [s EXCEPT !.rec = "stopping"]
    ELSE s

\* ------------------------------------------------------------ stopAllAudio
StopAllAudio(s) ==
    LET cur == s.currentAudio
        s1 == IF cur # NoText
              THEN [s EXCEPT
                      !.audios = {a \in @ : a.text # cur},
                      !.speakCalls =
                          {IF c.text = cur /\ c.pc = "play"
                           THEN [c EXCEPT !.pc = "aborted"] ELSE c : c \in @},
                      !.currentAudio = NoText]
              ELSE s
        s2 == IF env.synth /\ s1.utterance # NoText
              THEN [s1 EXCEPT !.cancelled = @ \cup {s1.utterance},
                              !.utterance = NoText]
              ELSE s1
    IN  [s2 EXCEPT !.isPlaying = FALSE]

\* ------------------------------------------------------------------- speak
\* speak(text) up to its first await (the 300 ms pre-roll).
\* speak() that skips a text when the channel is busy
SpeakBusyDrops(s, t) == s

SpeakBusy(s, t) ==
    [s EXCEPT !.speechQueue = Append(@, t),
              !.enqLog = IF InSeq(t, @) \/ ~logging THEN @ ELSE Append(@, t)]

\* speak() without the second isPlaying = true, after stopAllAudio()
SpeakBeginFlagLost(s, t) ==
    LET s1 == IF env.recog /\ s.isListening THEN RecStop(s) ELSE s
        s2 == StopAllAudio([s1 EXCEPT !.isPlaying = TRUE])
    IN  [s2 EXCEPT !.speakCalls = @ \cup {[text |-> t, pc |-> "preroll"]}]

SpeakBegin(s, t) ==
    LET s1 == IF env.recog /\ s.isListening THEN RecStop(s) ELSE s
        s2 == StopAllAudio([s1 EXCEPT !.isPlaying = TRUE])
    IN  [s2 EXCEPT !.isPlaying = TRUE,
                   !.speakCalls = @ \cup {[text |-> t, pc |-> "preroll"]}]

Speak(s, t) == IF s.isPlaying THEN SpeakBusy(s, t) ELSE SpeakBegin(s, t)

\* speak() of a text the application has just produced.
SpeakNew(s, kind) ==
    Speak([s EXCEPT !.nextId = @ + 1], Text(kind, s.nextId))

\* speak(), lines 370-376: after the launch, pull one queued text.
ProcessQueueAfterLaunch(s) ==
    IF Len(s.speechQueue) > 0
    THEN SetTimeout([s EXCEPT !.speechQueue = Tail(@)], "respeak",
                    Head(s.speechQueue))
    ELSE s

\* speakWithBrowser(text)
SpeakWithBrowser(s, t) ==
    IF env.synth
    THEN [s EXCEPT !.cancelled = IF s.utterance # NoText
                                 THEN @ \cup {s.utterance} ELSE @,
                   !.utterance = t,
                   !.playLog = IF logging THEN Append(@, t) ELSE @]
    ELSE s

\* The catch block of speakWithElevenLabs followed by the one of speak().
ElevenLabsFailed(s, t) ==
    SpeakWithBrowser([s EXCEPT !.isPlaying = FALSE, !.currentAudio = NoText], t)

\* startContinuousListening that sets its retry timer when already listening.
StartRetriesWhenListening(s, fail) ==
    IF ~env.recog THEN s
    ELSE IF s.isListening THEN SetTimeout(s, "startRetry", NoText)
    ELSE LET s1 == [s EXCEPT !.continuousListening = TRUE] IN
         IF s1.rec # "idle"
         THEN [s1 EXCEPT !.isListening = TRUE]
         ELSE IF fail
         THEN SetTimeout(s1, "startRetry", NoText)
         ELSE LET s2 == [s1 EXCEPT !.rec = "starting", !.isListening = TRUE]
              IN  IF env.mobile /\ ~s2.mobileRestartInterval
                  THEN [s2 EXCEPT !.mobileRestartInterval = TRUE,
                                  !.intervals = @ + 1]
                  ELSE s2

\* startContinuousListening creating its interval whether or not one is set.
StartCreatesAnotherInterval(s, fail) ==
    IF ~env.recog THEN s
    ELSE IF s.isListening THEN s
    ELSE LET s1 == [s EXCEPT !.continuousListening = TRUE] IN
         IF s1.rec # "idle"
         THEN [s1 EXCEPT !.isListening = TRUE]
         ELSE IF fail
         THEN SetTimeout(s1, "startRetry", NoText)
         ELSE LET s2 == [s1 EXCEPT !.rec = "starting", !.isListening = TRUE]
              IN  IF env.mobile
                  THEN [s2 EXCEPT !.mobileRestartInterval = TRUE,
                                  !.intervals = @ + 1]
                  ELSE s2

\* ------------------------------------------------- startContinuousListening
StartContinuousListening(s, fail) ==
    IF ~env.recog THEN s
    ELSE IF s.isListening THEN s
    ELSE LET s1 == [s EXCEPT !.continuousListening = TRUE] IN
         IF s1.rec # "idle"
         THEN [s1 EXCEPT !.isListening = TRUE]
         ELSE IF fail
         THEN SetTimeout(s1, "startRetry", NoText)
         ELSE LET s2 == [s1 EXCEPT !.rec = "starting", !.isListening = TRUE]
              IN  IF env.mobile /\ ~s2.mobileRestartInterval
                  THEN [s2 EXCEPT !.mobileRestartInterval = TRUE,
                                  !.intervals = @ + 1]
                  ELSE s2

\* ------------------------------------------------------- playback finished
\* audio.onended / utterance.onend after the handler cleared its own flags.
NoRestartAfterSpeaking(s) == s

RestartAfterSpeaking(s) ==
    IF s.continuousListening /\ ~s.isListening
    THEN SetTimeout(s, "settle", NoText) ELSE s

\* The 100 ms timers of speak() that are pending when a 500 ms timer is set
\* run before it: they are marked as due first.
DueFirst(b) ==
    LET old == {tm \in BagToSet(b) : tm.kind = "respeak"}
        first(tm) == [tm EXCEPT !.kind = "respeakFirst"]
        dom == (BagToSet(b) \ old) \cup {first(tm) : tm \in old}
    IN  [tm \in dom |->
            (IF tm \in BagToSet(b) THEN b[tm] ELSE 0)
            + (IF tm.kind = "respeakFirst"
               THEN CopiesIn([tm EXCEPT !.kind = "respeak"], b) ELSE 0)]

\* The playback-finished handler reading the head of the queue without
\* removing it.
ProcessQueueKeepsHead(s) ==
    IF Len(s.speechQueue) > 0
    THEN SetTimeout([s EXCEPT !.timers = DueFirst(@)],
                    "speak", Head(s.speechQueue))
    ELSE s

ProcessQueueAfterEnd(s) ==
    IF Len(s.speechQueue) > 0
    THEN LET rest == Tail(s.speechQueue) IN
         SetTimeout([s EXCEPT !.speechQueue =
                                 IF Len(rest) > 2 THEN << >> ELSE rest,
                              !.timers = DueFirst(@)],
                    "speak", Head(s.speechQueue))
    ELSE s

PlaybackEnded(s) == ProcessQueueAfterEnd(RestartAfterSpeaking(s))

\* ------------------------------------------------------- handleVoiceCommand
\* The command is answered without a look at what captureFrame() returned.
HandleVoiceCommandNoCheck(s, command) ==
    LET lowerCommand == ToLowerCase(command) IN
    IF Includes(lowerCommand, << "help" >>) THEN SpeakNew(s, "help")
    ELSE IF Includes(lowerCommand, << "stop" >>)
            \/ Includes(lowerCommand, << "quiet" >>)
    THEN StopAllAudio(s)
    ELSE [s EXCEPT !.queries = @ \cup {s.nextId}, !.nextId = @ + 1]

\* The command handler with the stop test ahead of the help test.
HandleVoiceCommandStopFirst(s, command) ==
    LET lowerCommand == ToLowerCase(command) IN
    IF Includes(lowerCommand, << "stop" >>)
       \/ Includes(lowerCommand, << "quiet" >>)
    THEN StopAllAudio(s)
    ELSE IF Includes(lowerCommand, << "help" >>) THEN SpeakNew(s, "help")
    ELSE IF s.videoReady
    THEN [s EXCEPT !.queries = @ \cup {s.nextId}, !.nextId = @ + 1]
    ELSE SpeakNew(s, "nocapture")

HandleVoiceCommand(s, command) ==
    LET lowerCommand == ToLowerCase(command) IN
    IF Includes(lowerCommand, << "help" >>) THEN SpeakNew(s, "help")
    ELSE IF Includes(lowerCommand, << "stop" >>)
            \/ Includes(lowerCommand, << "quiet" >>)
    THEN StopAllAudio(s)
    ELSE IF s.videoReady
    THEN [s EXCEPT !.queries = @ \cup {s.nextId}, !.nextId = @ + 1]
    ELSE SpeakNew(s, "nocapture")

OnResultStopsFirst(s, raw) ==
    LET transcript == Trim(raw) IN
    IF FilterAccepts(transcript)
    THEN HandleVoiceCommand(RecStop(s), transcript)
    ELSE RecStop(s)

\* recognition.onresult that handles the command without stopping first
OnResultNoStop(s, raw) ==
    LET transcript == Trim(raw) IN
    IF FilterAccepts(transcript)
    THEN HandleVoiceCommand(s, transcript)
    ELSE s

\* recognition.onresult for a final result
OnResultFinal(s, raw) ==
    LET transcript == Trim(raw) IN
    IF FilterAccepts(transcript)
    THEN HandleVoiceCommand(RecStop(s), transcript)
    ELSE s

\* recognition.onresult that does not look at isFinal
OnResultIgnoresFinal(s, isFinal, raw) == OnResultFinal(s, raw)

\* recognition.onresult: lastResult is final or interim, raw its transcript
OnResultHandler(s, isFinal, raw) ==
    IF isFinal THEN OnResultFinal(s, raw) ELSE s

\* recognition.onerror
OnErrorHandler(s, error) ==
    LET s1 == [s EXCEPT !.isListening = FALSE] IN
    IF error = "no-speech"
    THEN IF ~s1.isPlaying THEN SpeakNew(s1, "nospeech") ELSE s1
    ELSE IF error = "network" THEN SpeakNew(s1, "network")
    ELSE s1

\* recognition.onend without its restart timer
OnEndNoRestart(s) == [s EXCEPT !.isListening = FALSE]

\* recognition.onend
OnEndHandler(s) ==
    LET s1 == [s EXCEPT !.isListening = FALSE] IN
    IF s1.continuousListening /\ ~s1.isPlaying
    THEN SetTimeout(s1, "autoRestart", NoText) ELSE s1

\* handleTouchControl; when the run is logged, an interrupt that stops the
\* audio is noted in the log of playback events.
Interrupt == Text("interrupt", 0)

HandleTouchControl(s) ==
    IF s.isPlaying
    THEN [StopAllAudio(s) EXCEPT
            !.playLog = IF logging THEN Append(@, Interrupt) ELSE @]
    ELSE s

\* stopRecognition without its clearInterval
StopRecognitionKeepsInterval(s) ==
    LET s1 == IF env.recog /\ s.isListening
              THEN [RecStop(s) EXCEPT !.isListening = FALSE] ELSE s
    IN  [s1 EXCEPT !.continuousListening = FALSE]

\* stopRecognition
StopRecognition(s) ==
    LET s1 == IF env.recog /\ s.isListening
              THEN [RecStop(s) EXCEPT !.isListening = FALSE] ELSE s
        s2 == IF s1.mobileRestartInterval
              THEN [s1 EXCEPT !.mobileRestartInterval = FALSE,
                              !.intervals = @ - 1]
              ELSE s1
    IN  [s2 EXCEPT !.continuousListening = FALSE]

\* startApp
StartApp(s) ==
    LET s1 == SpeakNew(s, "welcome")
        s2 == SetTimeout(s1, "camera", NoText)
    IN  IF env.recog THEN SetTimeout(s2, "listen", NoText) ELSE s2

\* handleStartButtonClick without its hasStarted test.
HandleStartButtonClickUnguarded(s) == StartApp([s EXCEPT !.hasStarted = TRUE])

\* handleStartButtonClick
HandleStartButtonClick(s) ==
    IF s.hasStarted THEN s ELSE StartApp([s EXCEPT !.hasStarted = TRUE])

\* ------------------------------------------------------------ the platform
\* mobile: the user agent is a phone (start screen, watchdog interval);
\* eleven: an ElevenLabs key is configured; synth: window.speechSynthesis
\* exists; recog: the browser has SpeechRecognition.
Platforms ==
    { [mobile |-> m, eleven |-> e, synth |-> TRUE, recog |-> TRUE] :
        m \in BOOLEAN, e \in BOOLEAN }

\* A final result: its words (each a sequence of atoms), single spaces
\* between them, and possibly a space before or after, as recognizers put.
Said(lead, words, trail) == [lead |-> lead, words |-> words, trail |-> trail]

RECURSIVE Join(_)
Join(words) ==
    IF words = << >> THEN << >>
    ELSE IF Len(words) = 1 THEN words[1]
    ELSE words[1] \o << SP >> \o Join(Tail(words))

Raw(u) ==
    (IF u.lead THEN << SP >> ELSE << >>) \o Join(u.words)
        \o (IF u.trail THEN << SP >> ELSE << >>)

W(a) == << a >>

\* What the user is heard to say in the controller's specification.
Utterances ==
    { Said(TRUE, << W("what"), W("do"), W("you"), W("see") >>, FALSE),
      Said(FALSE, << W("the") >>, FALSE),
      Said(FALSE, << W("Help"), W("me") >>, FALSE),
      Said(FALSE, << W("please"), W("stop"), W("talking"), W("now") >>, FALSE),
      Said(FALSE, << W("please"), W("stop"), W("and"), W("help"), W("me") >>,
           FALSE),
      Said(FALSE, << W("what"), W("is"), W("a"), W("room"), W("with"),
                     W("windows") >>, FALSE) }

NothingHeard == [lead |-> FALSE, words |-> << >>, trail |-> FALSE, done |-> TRUE]

Errors == { "no-speech", "network", "not-allowed" }

\* ---------------------------------------------------------------- actions
CommitApp(r) ==
    /\ BagCardinality(r.timers) <= MaxTimers
    /\ hasStarted' = r.hasStarted
    /\ isPlaying' = r.isPlaying
    /\ isListening' = r.isListening
    /\ continuousListening' = r.continuousListening
    /\ speechQueue' = r.speechQueue
    /\ currentAudio' = r.currentAudio
    /\ mobileRestartInterval' = r.mobileRestartInterval
    /\ intervals' = r.intervals
    /\ videoReady' = r.videoReady
    /\ rec' = r.rec
    /\ audios' = r.audios
    /\ utterance' = r.utterance
    /\ cancelled' = r.cancelled
    /\ timers' = r.timers
    /\ speakCalls' = r.speakCalls
    /\ queries' = r.queries
    /\ nextId' = r.nextId
    /\ events' = r.events
    /\ playLog' = r.playLog
    /\ enqLog' = r.enqLog
    /\ UNCHANGED << env, logging >>

Commit(r) == CommitApp(r) /\ UNCHANGED heard

\* A step that may hand a new text to speak() or issue a query.
CommitNew(r) == r.nextId <= MaxTexts + 1 /\ Commit(r)

\* A failure injected by the platform or by a service.
CommitFault(r) ==
    /\ events < MaxEvents
    /\ CommitNew([r EXCEPT !.events = @ + 1])

\* A user action; it is counted when it has an effect.
CommitUser(r) ==
    IF r = St THEN Commit(r)
    ELSE events < MaxEvents /\ CommitNew([r EXCEPT !.events = @ + 1])

\* The state the constructor leaves: initializeSpeechRecognition(), then
\* autoStart(), which calls startApp() at once unless the device is mobile.
Fresh ==
    [ hasStarted |-> FALSE, isPlaying |-> FALSE, isListening |-> FALSE,
      continuousListening |-> TRUE, speechQueue |-> << >>,
      currentAudio |-> NoText, mobileRestartInterval |-> FALSE,
      intervals |-> 0,
      videoReady |-> FALSE, rec |-> "idle", audios |-> {},
      utterance |-> NoText, cancelled |-> {}, timers |-> EmptyBag,
      speakCalls |-> {}, queries |-> {}, nextId |-> 1, events |-> 0,
      playLog |-> << >>, enqLog |-> << >> ]

Constructed ==
    LET s1 == IF env.recog THEN Fresh ELSE SpeakNew(Fresh, "unsupported")
    IN  IF env.mobile THEN s1 ELSE StartApp(s1)

\* The program state is r.
Is(r) ==
    /\ hasStarted = r.hasStarted
    /\ isPlaying = r.isPlaying
    /\ isListening = r.isListening
    /\ continuousListening = r.continuousListening
    /\ speechQueue = r.speechQueue
    /\ currentAudio = r.currentAudio
    /\ mobileRestartInterval = r.mobileRestartInterval
    /\ intervals = r.intervals
    /\ videoReady = r.videoReady
    /\ rec = r.rec
    /\ audios = r.audios
    /\ utterance = r.utterance
    /\ cancelled = r.cancelled
    /\ timers = r.timers
    /\ speakCalls = r.speakCalls
    /\ queries = r.queries
    /\ nextId = r.nextId
    /\ events = r.events
    /\ playLog = r.playLog
    /\ enqLog = r.enqLog

InitApp == env \in Platforms /\ Is(Constructed)

Init == logging = FALSE /\ InitApp /\ heard = NothingHeard

\* One tap on the start button: its listener, the start screen's listener
\* (the click bubbles) and the document's click listener run in turn.
StartButtonClick ==
    /\ env.mobile
    /\ ~hasStarted
    /\ CommitNew(HandleTouchControl(
                     HandleStartButtonClick(HandleStartButtonClick(St))))

\* touchstart / click anywhere on the page
Touch ==
    /\ CommitUser(HandleTouchControl(St))

\* stopRecognition() called from outside the class (explicit stop)
\* When the run is logged, the explicit stop is noted in the log.
Stopped == Text("stopped", 0)

StopRecognitionCall ==
    /\ CommitUser([StopRecognition(St) EXCEPT
                     !.playLog = IF logging THEN Append(@, Stopped) ELSE @])

\* --- recognizer events
OnStart ==
    /\ rec = "starting"
    /\ Commit([St EXCEPT !.rec = "active", !.isListening = TRUE])

\* A final result may still arrive after stop(): the recognizer returns
\* what it captured so far.
OnResult ==
    /\ rec \in {"active", "stopping"}
    /\ \E u \in Utterances : CommitUser(OnResultHandler(St, TRUE, Raw(u)))

OnInterimResult ==
    /\ rec \in {"active", "stopping"}
    /\ \E u \in Utterances : Commit(OnResultHandler(St, FALSE, Raw(u)))

OnError ==
    /\ rec \in {"starting", "active"}
    /\ \E e \in Errors :
          CommitFault(OnErrorHandler([St EXCEPT !.rec = "stopping"], e))

OnEnd ==
    /\ rec = "stopping"
    /\ Commit(OnEndHandler([St EXCEPT !.rec = "idle"]))

\* The platform halts recognition on its own (silence, time limit).
PlatformEnd ==
    /\ rec = "active"
    /\ CommitFault(OnEndHandler([St EXCEPT !.rec = "idle"]))

\* --- speak() after its awaits
DropCall(s, c) == [s EXCEPT !.speakCalls = @ \ {c}]

PrerollDone ==
    \E c \in speakCalls :
        /\ c.pc = "preroll"
        /\ IF env.eleven
           THEN Commit([St EXCEPT !.speakCalls =
                           (@ \ {c}) \cup {[c EXCEPT !.pc = "fetch"]}])
           ELSE Commit(ProcessQueueAfterLaunch(
                           SpeakWithBrowser(DropCall(St, c), c.text)))

\* fetch and blob resolved: the Audio element is created and play() called
FetchOk ==
    \E c \in speakCalls :
        /\ c.pc = "fetch"
        /\ Commit([St EXCEPT
                     !.speakCalls = (@ \ {c}) \cup {[c EXCEPT !.pc = "play"]},
                     !.audios = @ \cup {[text |-> c.text, st |-> "loading"]},
                     !.currentAudio = c.text,
                     !.isPlaying = TRUE])

FetchFailed ==
    \E c \in speakCalls :
        /\ c.pc = "fetch"
        /\ CommitFault(ProcessQueueAfterLaunch(
                           ElevenLabsFailed(DropCall(St, c), c.text)))

\* audio.play() resolved: playback has started
PlayStarted ==
    \E c \in speakCalls :
        /\ c.pc = "play"
        /\ Commit(ProcessQueueAfterLaunch(
                      [DropCall(St, c) EXCEPT
                         !.audios = (@ \ {[text |-> c.text, st |-> "loading"]})
                                     \cup {[text |-> c.text, st |-> "playing"]},
                         !.playLog = IF logging THEN Append(@, c.text)
                                     ELSE @]))

PlayRejectedHandler(s, c) ==
    ProcessQueueAfterLaunch(
        ElevenLabsFailed([DropCall(s, c) EXCEPT
                            !.audios = {a \in @ : a.text # c.text}],
                         c.text))

\* audio.play() rejected because autoplay is blocked
PlayRejected ==
    \E c \in speakCalls :
        /\ c.pc = "play"
        /\ CommitFault(PlayRejectedHandler(St, c))

\* audio.play() rejected because stopAllAudio() reset the element
PlayAborted ==
    \E c \in speakCalls :
        /\ c.pc = "aborted"
        /\ Commit(PlayRejectedHandler(St, c))

\* --- playback events
AudioEnded ==
    \E a \in audios :
        /\ a.st = "playing"
        /\ Commit(PlaybackEnded([St EXCEPT !.audios = @ \ {a},
                                           !.isPlaying = FALSE,
                                           !.currentAudio = NoText]))

\* When the run is logged, a playback error is noted in the log of playback
\* events.
PlaybackError == Text("error", 0)

LogError(s) ==
    [s EXCEPT !.playLog = IF logging THEN Append(@, PlaybackError) ELSE @]

AudioError ==
    \E a \in audios :
        /\ a.st = "playing"
        /\ CommitFault(LogError([St EXCEPT !.audios = @ \ {a},
                                           !.isPlaying = FALSE,
                                           !.currentAudio = NoText]))

UtteranceEnd ==
    /\ utterance # NoText
    /\ Commit(PlaybackEnded([St EXCEPT !.utterance = NoText,
                                       !.isPlaying = FALSE]))

UtteranceError ==
    /\ utterance # NoText
    /\ CommitFault(LogError([St EXCEPT !.utterance = NoText,
                                       !.isPlaying = FALSE]))

\* the error event of an utterance that speechSynthesis.cancel() interrupted
CancelledError ==
    \E t \in cancelled :
        Commit([St EXCEPT !.cancelled = @ \ {t}, !.isPlaying = FALSE])

\* --- the external query
QueryAnswered ==
    \E q \in queries :
        Commit(Speak([St EXCEPT !.queries = @ \ {q}], Text("answer", q)))

\* The query is not answered and its failure is not handled: nothing is
\* said.
QueryFailurePropagates(s, q) == [s EXCEPT !.queries = @ \ {q}]

\* the catch block of askAboutScene
QueryFailedHandler(s, q) ==
    Speak([s EXCEPT !.queries = @ \ {q}], Text("fallback", q))

QueryFailed ==
    \E q \in queries : CommitFault(QueryFailedHandler(St, q))

\* --- timers
Fired(s, tm) == [s EXCEPT !.timers = @ (-) SetToBag({tm})]

Pending(kind) == {tm \in BagToSet(timers) : tm.kind = kind}

\* recognition.start() throws something other than "already started"
StartFails(fail, r) ==
    IF fail THEN rec = "idle" /\ CommitFault(r) ELSE Commit(r)

\* startApp() calls speak(welcome) and then sets its timers (2 s, 3.5 s):
\* the welcome's pre-roll (300 ms) is over when they fire.
WelcomePrerollOver ==
    \A c \in speakCalls : ~(c.text.kind = "welcome" /\ c.pc = "preroll")

CameraStarted ==
    \E tm \in Pending("camera") :
        /\ WelcomePrerollOver
        /\ Commit([Fired(St, tm) EXCEPT !.videoReady = TRUE])

CameraFailed ==
    \E tm \in Pending("camera") :
        /\ WelcomePrerollOver
        /\ CommitFault(SpeakNew(Fired(St, tm), "camera"))

\* startApp() sets this timer (3.5 s) together with the camera's (2 s),
\* which therefore fires first.
TimerListen ==
    \E tm \in Pending("listen"), fail \in BOOLEAN :
        /\ Pending("camera") = {}
        /\ WelcomePrerollOver
        /\ StartFails(fail, StartContinuousListening(Fired(St, tm), fail))

AutoRestartHandler(s, fail) ==
    IF s.continuousListening /\ ~s.isPlaying
    THEN StartContinuousListening(s, fail) ELSE s

TimerAutoRestart ==
    \E tm \in Pending("autoRestart"), fail \in BOOLEAN :
        StartFails(fail, AutoRestartHandler(Fired(St, tm), fail))

TimerSettle ==
    \E tm \in Pending("settle"), fail \in BOOLEAN :
        StartFails(fail, StartContinuousListening(Fired(St, tm), fail))

\* The callbacks that call speak(nextText): after 100 ms when set by
\* speak(), after 500 ms when set by a playback's end.
TimerSpeak ==
    \E tm \in Pending("speak") \cup Pending("respeak")
                 \cup Pending("respeakFirst") :
        /\ tm.kind = "speak" => Pending("respeakFirst") = {}
        /\ Commit(Speak(Fired(St, tm), tm.text))

TimerStartRetry ==
    \E tm \in Pending("startRetry"), fail \in BOOLEAN :
        StartFails(fail, StartContinuousListening(Fired(St, tm), fail))

\* the interval callback, up to its inner setTimeout
WatchdogTickHandler(s) ==
    IF s.continuousListening /\ ~s.isPlaying
    THEN LET s1 == IF s.isListening
                   THEN [RecStop(s) EXCEPT !.isListening = FALSE] ELSE s
         IN  SetTimeout(s1, "wdRestart", NoText)
    ELSE s

\* The interval's period (20 s) is longer than the delays of the timers a
\* tick starts (200 ms, then 2 s): those have fired before the next tick.
WatchdogTick ==
    /\ intervals > 0
    /\ Pending("wdRestart") = {}
    /\ Pending("wdRetry") = {}
    /\ Commit(WatchdogTickHandler(St))

\* the inner setTimeout of the interval callback (200 ms)
WdRestartHandler(s, fail) ==
    IF s.continuousListening /\ ~s.isPlaying /\ ~s.isListening
    THEN IF s.rec # "idle" \/ fail
         THEN SetTimeout(s, "wdRetry", NoText)
         ELSE [s EXCEPT !.rec = "starting", !.isListening = TRUE]
    ELSE s

TimerWdRestart ==
    \E tm \in Pending("wdRestart"), fail \in BOOLEAN :
        StartFails(fail, WdRestartHandler(Fired(St, tm), fail))

WdRetryHandler(s, fail) ==
    IF s.continuousListening /\ ~s.isPlaying /\ ~s.isListening
    THEN StartContinuousListening(s, fail) ELSE s

TimerWdRetry ==
    \E tm \in Pending("wdRetry"), fail \in BOOLEAN :
        StartFails(fail, WdRetryHandler(Fired(St, tm), fail))

Next ==
    \/ StartButtonClick
    \/ Touch
    \/ StopRecognitionCall
    \/ OnStart
    \/ OnResult
    \/ OnInterimResult
    \/ OnError
    \/ OnEnd
    \/ PlatformEnd
    \/ PrerollDone
    \/ FetchOk
    \/ FetchFailed
    \/ PlayStarted
    \/ PlayRejected
    \/ PlayAborted
    \/ AudioEnded
    \/ AudioError
    \/ UtteranceEnd
    \/ UtteranceError
    \/ CancelledError
    \/ QueryAnswered
    \/ QueryFailed
    \/ CameraStarted
    \/ CameraFailed
    \/ TimerListen
    \/ TimerAutoRestart
    \/ TimerSettle
    \/ TimerSpeak
    \/ TimerStartRetry
    \/ WatchdogTick
    \/ TimerWdRestart
    \/ TimerWdRetry

Spec == Init /\ [][Next]_vars

\* ------------------------------------------------- the filter on its own
\* The controller is listening (welcome spoken, camera on, recognizer
\* running) and the recognizer holds one final result, drawn from the
\* transcripts below; the one step is recognition.onresult for it.
AffixWords == { W("the"), W("What"), W("please") }

Cores ==
    { << >>,
      << W("the"), W("person"), W("on"), W("the"), W("left") >>,
      << W("Wearing"), W("glasses"), W("and") >>,
      << W("Room"), W("with") >>,
      << << "bed", "room" >>, << "with", "out" >> >>,
      << W("room"), W("and") >>,
      << W("see") >> }

RECURSIVE WordLists(_)
WordLists(n) ==
    IF n = 0 THEN { << >> }
    ELSE WordLists(n - 1)
         \cup { Append(ws, w) : ws \in {x \in WordLists(n - 1) : Len(x) = n - 1},
                                w \in AffixWords }

FilterInputs ==
    { [lead |-> l, words |-> pre \o core \o post, trail |-> t, done |-> FALSE] :
        l \in BOOLEAN, t \in BOOLEAN, core \in Cores,
        pre \in WordLists(MaxAffix), post \in WordLists(MaxAffix) }

Listening ==
    [ hasStarted |-> FALSE, isPlaying |-> FALSE, isListening |-> TRUE,
      continuousListening |-> TRUE, speechQueue |-> << >>,
      currentAudio |-> NoText, mobileRestartInterval |-> FALSE,
      intervals |-> 0,
      videoReady |-> TRUE, rec |-> "active", audios |-> {},
      utterance |-> NoText, cancelled |-> {}, timers |-> EmptyBag,
      speakCalls |-> {}, queries |-> {}, nextId |-> 2, events |-> 0,
      playLog |-> << >>, enqLog |-> << >> ]

DesktopBrowserVoice ==
    [mobile |-> FALSE, eleven |-> FALSE, synth |-> TRUE, recog |-> TRUE]

FilterInit ==
    /\ env = DesktopBrowserVoice
    /\ logging = FALSE
    /\ Is(Listening)
    /\ heard \in FilterInputs

DeliverHeard ==
    /\ ~heard.done
    /\ rec \in {"active", "stopping"}
    /\ CommitApp(OnResultFinal(St, Raw(heard)))
    /\ heard' = [heard EXCEPT !.done = TRUE]

FilterNext == DeliverHeard

FilterSpec == FilterInit /\ [][FilterNext]_vars

\* ------------------------------------------- one turn, delivered fairly
\* The controller is listening on any platform (on a phone the start button
\* was tapped and the watchdog interval runs).  The user may say one thing
\* that has an effect; the services answer and nothing fails afterwards.
\* Every event the browser owes the page is eventually delivered: recognizer
\* events, the awaits of speak(), playback events, the query's answer and
\* the timers.  What the user says is not owed.
ListeningOn(platform) ==
    [Listening EXCEPT !.hasStarted = platform.mobile,
                      !.mobileRestartInterval = platform.mobile,
                      !.intervals = IF platform.mobile THEN 1 ELSE 0,
                      !.events = MaxEvents - 1]

LiveInit ==
    /\ env \in Platforms
    /\ logging = TRUE
    /\ Is(ListeningOn(env))
    /\ heard = NothingHeard

LiveNext ==
    \/ OnStart
    \/ OnResult
    \/ OnInterimResult
    \/ OnEnd
    \/ PrerollDone
    \/ FetchOk
    \/ PlayStarted
    \/ AudioEnded
    \/ UtteranceEnd
    \/ QueryAnswered
    \/ TimerAutoRestart
    \/ TimerSettle
    \/ TimerStartRetry
    \/ WatchdogTick
    \/ TimerWdRestart
    \/ TimerWdRetry

Delivery ==
    /\ WF_vars(OnStart)
    /\ WF_vars(OnEnd)
    /\ WF_vars(PrerollDone)
    /\ WF_vars(FetchOk)
    /\ WF_vars(PlayStarted)
    /\ WF_vars(AudioEnded)
    /\ WF_vars(UtteranceEnd)
    /\ WF_vars(QueryAnswered)
    /\ WF_vars(TimerAutoRestart)
    /\ WF_vars(TimerSettle)
    /\ WF_vars(TimerStartRetry)
    /\ WF_vars(TimerWdRestart)
    /\ WF_vars(TimerWdRetry)

LiveSpec == LiveInit /\ [][LiveNext]_vars /\ Delivery

\* ------------------------------------------- a turn whose query may fail
\* The controller is listening and the user says one thing, drawn from the
\* controller's utterances.  The query it starts may fail; nothing else
\* fails, and every event owed is delivered.
HeardOnce ==
    { [lead |-> u.lead, words |-> u.words, trail |-> u.trail, done |-> FALSE] :
        u \in Utterances }

FailureInit ==
    /\ env \in Platforms
    /\ logging = TRUE
    /\ Is(ListeningOn(env))
    /\ heard \in HeardOnce

FailureNext ==
    \/ DeliverHeard
    \/ OnStart
    \/ OnInterimResult
    \/ OnEnd
    \/ PrerollDone
    \/ FetchOk
    \/ PlayStarted
    \/ AudioEnded
    \/ UtteranceEnd
    \/ QueryAnswered
    \/ QueryFailed
    \/ TimerAutoRestart
    \/ TimerSettle
    \/ TimerStartRetry
    \/ WatchdogTick
    \/ TimerWdRestart
    \/ TimerWdRetry

FailureSpec == FailureInit /\ [][FailureNext]_vars /\ Delivery

\* ---------------------------------------- a turn whose playback may fail
\* As the turn with one utterance heard, but what may fail is the playback:
\* the Audio element or the utterance reports an error.  The watchdog
\* interval of a phone keeps ticking.
PlaybackErrorNext ==
    \/ DeliverHeard
    \/ OnStart
    \/ OnInterimResult
    \/ OnEnd
    \/ PrerollDone
    \/ FetchOk
    \/ PlayStarted
    \/ AudioEnded
    \/ AudioError
    \/ UtteranceEnd
    \/ UtteranceError
    \/ QueryAnswered
    \/ TimerAutoRestart
    \/ TimerSettle
    \/ TimerStartRetry
    \/ WatchdogTick
    \/ TimerWdRestart
    \/ TimerWdRetry

PlaybackErrorDelivery == Delivery /\ WF_vars(WatchdogTick)

PlaybackErrorSpec ==
    FailureInit /\ [][PlaybackErrorNext]_vars /\ PlaybackErrorDelivery

\* ------------------------------------------- a turn with an explicit stop
\* As the turn with one utterance heard; stopRecognition() may be called
\* once, at any moment.  Nothing fails.
StopNext ==
    \/ DeliverHeard
    \/ StopRecognitionCall
    \/ OnStart
    \/ OnInterimResult
    \/ OnEnd
    \/ PrerollDone
    \/ FetchOk
    \/ PlayStarted
    \/ AudioEnded
    \/ UtteranceEnd
    \/ QueryAnswered
    \/ TimerAutoRestart
    \/ TimerSettle
    \/ TimerStartRetry
    \/ WatchdogTick
    \/ TimerWdRestart
    \/ TimerWdRetry

StopSpec == FailureInit /\ [][StopNext]_vars /\ Delivery

\* ------------------------------------------------- a turn with interrupts
\* As above, but the user may also touch the screen; two user actions with
\* an effect may happen in a run.  The events a cancelled playback owes are
\* delivered too.
InterruptInit ==
    /\ env \in Platforms
    /\ logging = TRUE
    /\ Is([ListeningOn(env) EXCEPT !.events = MaxEvents - 2])
    /\ heard = NothingHeard

InterruptNext ==
    \/ Touch
    \/ OnStart
    \/ OnResult
    \/ OnInterimResult
    \/ OnEnd
    \/ PrerollDone
    \/ FetchOk
    \/ PlayStarted
    \/ PlayAborted
    \/ AudioEnded
    \/ UtteranceEnd
    \/ CancelledError
    \/ QueryAnswered
    \/ TimerAutoRestart
    \/ TimerSettle
    \/ TimerSpeak
    \/ TimerStartRetry
    \/ WatchdogTick
    \/ TimerWdRestart
    \/ TimerWdRetry

InterruptDelivery ==
    /\ Delivery
    /\ WF_vars(PlayAborted)
    /\ WF_vars(CancelledError)
    /\ WF_vars(TimerSpeak)

InterruptSpec == InterruptInit /\ [][InterruptNext]_vars /\ InterruptDelivery

\* -------------------------------------- the controller, delivered fairly
\* The whole controller from its construction, also on a browser without
\* window.speechSynthesis.  One failure or effective user action may happen;
\* every event the browser owes the page is eventually delivered, whichever
\* way it turns out.
AnyPlatforms ==
    { [mobile |-> m, eleven |-> e, synth |-> v, recog |-> TRUE] :
        m \in BOOLEAN, e \in BOOLEAN, v \in BOOLEAN }

RecoveryInit ==
    /\ env \in AnyPlatforms
    /\ logging = FALSE
    /\ Is([Constructed EXCEPT !.events = MaxEvents - 1])
    /\ heard = NothingHeard

\* The one event is spent by the time a query could fail: a query needs an
\* utterance that was accepted.
RecoveryNext ==
    \/ StartButtonClick
    \/ Touch
    \/ StopRecognitionCall
    \/ OnStart
    \/ OnResult
    \/ OnInterimResult
    \/ OnError
    \/ OnEnd
    \/ PlatformEnd
    \/ PrerollDone
    \/ FetchOk
    \/ FetchFailed
    \/ PlayStarted
    \/ PlayRejected
    \/ PlayAborted
    \/ AudioEnded
    \/ AudioError
    \/ UtteranceEnd
    \/ UtteranceError
    \/ CancelledError
    \/ QueryAnswered
    \/ CameraStarted
    \/ CameraFailed
    \/ TimerListen
    \/ TimerAutoRestart
    \/ TimerSettle
    \/ TimerSpeak
    \/ TimerStartRetry
    \/ WatchdogTick
    \/ TimerWdRestart
    \/ TimerWdRetry

RecoveryDelivery ==
    /\ InterruptDelivery
    /\ WF_vars(WatchdogTick)
    /\ WF_vars(CameraStarted \/ CameraFailed)
    /\ WF_vars(TimerListen)
    /\ WF_vars(FetchOk \/ FetchFailed)
    /\ WF_vars(PlayStarted \/ PlayRejected)

RecoverySpec == RecoveryInit /\ [][RecoveryNext]_vars /\ RecoveryDelivery

\* ------------------------------------- from the start, one thing is heard
\* The controller from its construction; the recognizer delivers one final
\* result, at any moment it can (also while the welcome is spoken).  Nothing
\* fails and the user does nothing else but tap the start button of a phone.
\* Every event owed is delivered.
StartupInit ==
    /\ env \in Platforms
    /\ logging = TRUE
    /\ Is([Constructed EXCEPT !.events = MaxEvents])
    /\ heard \in HeardOnce

StartupNext ==
    \/ StartButtonClick
    \/ DeliverHeard
    \/ OnStart
    \/ OnInterimResult
    \/ OnEnd
    \/ PrerollDone
    \/ FetchOk
    \/ PlayStarted
    \/ PlayAborted
    \/ AudioEnded
    \/ UtteranceEnd
    \/ CancelledError
    \/ QueryAnswered
    \/ CameraStarted
    \/ TimerListen
    \/ TimerAutoRestart
    \/ TimerSettle
    \/ TimerSpeak
    \/ WatchdogTick
    \/ TimerWdRestart
    \/ TimerWdRetry

\* A watchdog tick comes every 20 s, the events below within a fraction of
\* that: a pending one is delivered even if ticks keep coming.
StartupDelivery ==
    /\ RecoveryDelivery
    /\ SF_vars(OnStart)
    /\ SF_vars(OnEnd)
    /\ SF_vars(UtteranceEnd)
    /\ SF_vars(AudioEnded)
    /\ SF_vars(PlayStarted)

StartupSpec == StartupInit /\ [][StartupNext]_vars /\ StartupDelivery

\* --------------------------------------------- the speech output path
\* The page runs in a desktop browser without SpeechRecognition, so only
\* the output path moves: the constructor has spoken its notice and
\* startApp() its welcome.  speak() is then handed further texts by its
\* callers (answers, error messages), and plays and queues them.
NoRecognition ==
    { [mobile |-> FALSE, eleven |-> e, synth |-> TRUE, recog |-> FALSE] :
        e \in BOOLEAN }

QueueInit ==
    /\ env \in NoRecognition
    /\ logging = TRUE
    /\ Is(Constructed)
    /\ heard = NothingHeard

\* A caller hands speak() a text it has just produced.
SpeakCall ==
    /\ nextId <= MaxQueueTexts
    /\ Commit(SpeakNew(St, "said"))

QueueNext ==
    \/ SpeakCall
    \/ PrerollDone
    \/ FetchOk
    \/ PlayStarted
    \/ AudioEnded
    \/ UtteranceEnd
    \/ CameraStarted
    \/ TimerSettle
    \/ TimerSpeak

QueueSpec == QueueInit /\ [][QueueNext]_vars

\* ------------------------------------------------------------- turn state
\* The microphone is armed while the recognizer has been started and not
\* stopped; playback is armed while an Audio element plays or an utterance
\* is being spoken.
MicActive == rec \in {"starting", "active"}

AudioPlaying == \E a \in audios : a.st = "playing"

PlaybackActive == AudioPlaying \/ utterance # NoText

Processing == queries # {}

\* ------------------------------------------------------------------ claims
\* C1: the microphone (recognizer started, isListening) and playback
\* (isPlaying, audio or speech synthesis active) are never both active.
C1_MicPlaybackExclusive ==
    ~(MicActive /\ isListening /\ isPlaying /\ PlaybackActive)


\* What the claims call the words of a transcript, a keyword and an echo.
WordCount(u) == Len(u.words)

HasKeyword(u) ==
    \E i \in 1..Len(u.words), q \in questionWords :
        ToLowerCase(u.words[i]) = << q >>

ContainsDenyPhrase(u) ==
    \E p \in EchoPhrases : Includes(ToLowerCase(Join(u.words)), p)

ShouldAccept(u) ==
    /\ ~ContainsDenyPhrase(u)
    /\ WordCount(u) >= 4 \/ (WordCount(u) >= 2 /\ HasKeyword(u))

\* C2: a final transcript that contains an echo denylist phrase is rejected,
\* whatever its word count and keywords: after recognition.onresult the
\* recognizer still runs and no command was handled.
C2_EchoRejected ==
    (heard.done /\ ContainsDenyPhrase(heard)) => St = Listening

C2_Witness ==
    /\ heard.done
    /\ ContainsDenyPhrase(heard)
    /\ WordCount(heard) >= 4
    /\ HasKeyword(heard)
    /\ rec = "active"

C4_RejectedChangesNothing ==
    (rec = "active" /\ isListening) =>
        \A u \in Utterances :
            ~ShouldAccept(u) => OnResultFinal(St, Raw(u)) = St

C4_Witness ==
    /\ rec = "active" /\ isListening /\ ~isPlaying /\ ~PlaybackActive
    /\ queries = {} /\ speakCalls = {} /\ speechQueue = << >>
    /\ ~ShouldAccept(Said(FALSE, << W("the") >>, FALSE))


\* The answer of query q is being played.
AnswerPlaying(q) ==
    \/ utterance = Text("answer", q)
    \/ [text |-> Text("answer", q), st |-> "playing"] \in audios

\* The microphone is armed and nothing else goes on.
ListeningAgain ==
    MicActive /\ isListening /\ ~isPlaying /\ ~PlaybackActive /\ ~Processing

\* C5: from Listening, an accepted transcript issues a query (Processing);
\* the query's answer is then played (Speaking); and once it has been
\* played the controller is eventually listening again with nothing
\* playing, when query, playback and timer events are delivered fairly.
C5_TurnCompletes ==
    \A q \in 1..(MaxTexts + 1) :
        /\ (q \in queries) ~> AnswerPlaying(q)
        /\ AnswerPlaying(q) ~> ListeningAgain

C5_Witness ==
    /\ ListeningAgain
    /\ rec = "active"
    /\ \E q \in 1..(MaxTexts + 1) : InSeq(Text("answer", q), playLog)

\* C6: while an external query is in flight the recognizer is never started,
\* by no path (auto-restart after onend, watchdog, start retry).
C6_NoStartWhileProcessing ==
    [][queries # {} => ~(rec # "starting" /\ rec' = "starting")]_vars

\* C7: a watchdog tick that fires while playback is active does nothing.
C7_WatchdogIdleWhileSpeaking ==
    (mobileRestartInterval /\ PlaybackActive) => WatchdogTickHandler(St) = St

\* C8: after any sequence of speak() calls made while the output channel is
\* busy, the speech queue holds at most two entries.
C8_QueueCap == Len(speechQueue) <= 2

\* The first place of x in q.
FirstAt(x, q) ==
    CHOOSE i \in 1..Len(q) : q[i] = x /\ \A j \in 1..(i - 1) : q[j] # x

\* C9: of two texts that were both queued and both spoken, the one queued
\* first is spoken first.
C9_QueueOrder ==
    \A i, j \in 1..Len(enqLog) :
        (i < j /\ InSeq(enqLog[i], playLog) /\ InSeq(enqLog[j], playLog))
            => FirstAt(enqLog[i], playLog) < FirstAt(enqLog[j], playLog)

\* Playbacks that have started and neither finished, failed nor been
\* cancelled.
Outstanding ==
    Cardinality({a \in audios : a.st = "playing"})
        + (IF utterance # NoText THEN 1 ELSE 0)

\* C10: at most one playback (Audio element or utterance) is outstanding
\* at any time, also when ElevenLabs fails and speak() falls back to
\* browser speech.
C10_OnePlayback == Outstanding <= 1

\* C11: calling stopAllAudio() twice leaves the state one call leaves, and
\* that state has no playback active, no current audio and an empty queue.
C11_StopTwiceSameAsOnce ==
    LET once == StopAllAudio(St) IN
    /\ StopAllAudio(once) = once
    /\ ~once.isPlaying
    /\ once.currentAudio = NoText
    /\ once.utterance = NoText
    /\ once.speechQueue = << >>

\* C12: a touch while playback is active leaves, when the handler returns,
\* no playback (isPlaying false, no current audio, nothing playing) and an
\* empty speech queue.
C12_InterruptClears ==
    PlaybackActive =>
        LET after == HandleTouchControl(St) IN
        /\ ~after.isPlaying
        /\ after.currentAudio = NoText
        /\ after.utterance = NoText
        /\ after.speechQueue = << >>

\* C13: after the user has interrupted a playback, with continuous mode
\* enabled, the controller reaches Listening: it does not stay idle.
C13_InterruptedResumes ==
    (InSeq(Interrupt, playLog) /\ continuousListening) ~> ListeningAgain

\* C14: while playback is active or a query is in flight (continuous mode
\* on), a final transcript delivered to recognition.onresult is ignored,
\* whatever it is: nothing is stopped, no query is issued, nothing is spoken.
C14_ResultIgnoredUnlessListening ==
    (/\ rec \in {"active", "stopping"}
     /\ continuousListening
     /\ PlaybackActive \/ Processing) =>
        \A u \in Utterances : OnResultFinal(St, Raw(u)) = St

\* Settle timers (1.5 s, set by a playback's end) that are pending.
SettlePending == CopiesIn(Timer("settle", NoText), timers)

\* C15: after a playback has finished the recognizer is not started before
\* the settle delay has elapsed: while a settle timer is pending, only its
\* callback starts the recognizer, and only with continuous mode enabled.
C15_NoStartBeforeSettle ==
    [][(SettlePending > 0 /\ rec # "starting" /\ rec' = "starting")
          => (SettlePending' < SettlePending /\ continuousListening)]_vars

\* C16: a no-speech error received while playback is active produces no
\* spoken message and no queue entry (only the recognizer's own state
\* changes); received with nothing playing or about to play, it hands a
\* prompt to speak(), which starts on it.
C16_NoSpeechSilentWhileSpeaking ==
    rec \in {"starting", "active"} =>
        LET after == OnErrorHandler([St EXCEPT !.rec = "stopping"], "no-speech")
        IN  /\ PlaybackActive =>
                after = [St EXCEPT !.rec = "stopping", !.isListening = FALSE]
            /\ (~isPlaying /\ ~PlaybackActive) =>
                [text |-> Text("nospeech", nextId), pc |-> "preroll"]
                    \in after.speakCalls


\* C17: a recognizer error of kind permission-denied is terminal for
\* listening: the handler turns continuous mode off and hands one
\* announcement of the condition to speak(), so that no automatic path
\* starts the recognizer again.
C17_DeniedIsTerminal ==
    rec \in {"starting", "active"} =>
        LET after == OnErrorHandler([St EXCEPT !.rec = "stopping"],
                                    "not-allowed")
        IN  /\ ~after.continuousListening
            /\ after.nextId = nextId + 1


\* The fallback for query q is being played.
FallbackPlaying(q) ==
    \/ utterance = Text("fallback", q)
    \/ [text |-> Text("fallback", q), st |-> "playing"] \in audios

\* In state s the fallback for query q is with speak(): in a call that has
\* not reached playback yet, or in the queue.
FallbackHanded(s, q) ==
    \/ \E c \in s.speakCalls : c.text = Text("fallback", q)
    \/ InSeq(Text("fallback", q), s.speechQueue)

NeedsScene(u) ==
    /\ ShouldAccept(u)
    /\ \A w \in {"help", "stop", "quiet"} :
            ~Includes(ToLowerCase(Trim(Raw(u))), << w >>)

\* C19: when captureFrame() returns null (the video is not ready) for an
\* accepted command that needs the scene, no query is issued and the
\* fallback text is handed to speak().
C19_NoImageNoQuery ==
    (~videoReady /\ rec \in {"active", "stopping"}) =>
        \A u \in Utterances :
            NeedsScene(u) =>
                LET after == OnResultFinal(St, Raw(u))
                IN  /\ after.queries = queries
                    /\ after = Speak([RecStop(St) EXCEPT !.nextId = @ + 1],
                                     Text("nocapture", nextId))

C19_Witness ==
    /\ ~videoReady
    /\ rec = "stopping"
    /\ queries = {}
    /\ \E c \in speakCalls : c.text.kind = "nocapture"


\* C20: after a playback error (audio.onerror or utterance.onerror) with
\* continuous mode on, the playing flag is cleared and the controller is
\* eventually listening again: it does not stay with neither playback nor
\* the recognizer active.
C20_PlaybackErrorRecovers ==
    /\ [](InSeq(PlaybackError, playLog) /\ ~PlaybackActive
            /\ speakCalls = {} => ~isPlaying)
    /\ (InSeq(PlaybackError, playLog) /\ continuousListening)
            ~> ListeningAgain


\* The controller is in Listening or in Idle: the playing flag is clear
\* and no query is in flight.
ListeningOrIdle == ~isPlaying /\ ~Processing

\* C21: whatever error has occurred, when pending events and timers are
\* delivered fairly the controller always comes to Listening or Idle again:
\* it is never stuck for ever in Speaking (isPlaying true) or Processing.
C21_NeverStuck == []<>ListeningOrIdle


\* C22: once stopRecognition() has been called, continuous mode stays off
\* and the recognizer is not started: no timer that was pending at the stop
\* (settle delay, start retry, onend auto-restart, app start) starts it or
\* turns continuous mode on again.
C22_StopIsFinal ==
    [][InSeq(Stopped, playLog)
         => /\ ~continuousListening'
            /\ rec' = "starting" => rec = "starting"]_vars


\* C23: whenever the watchdog interval exists, continuous mode is on; and a
\* watchdog tick, or the timers it sets, stops or starts the recognizer only
\* while continuous mode is on.
C23_WatchdogOnlyWhenContinuous ==
    /\ mobileRestartInterval => continuousListening
    /\ WatchdogTickHandler(St) # St => continuousListening
    /\ \A fail \in BOOLEAN :
          /\ WdRestartHandler(St, fail) # St => continuousListening
          /\ WdRetryHandler(St, fail) # St => continuousListening

C23_Witness ==
    /\ mobileRestartInterval
    /\ rec = "active"
    /\ WatchdogTickHandler(St).rec = "stopping"


\* Backoff timers (2 s) set by failed start attempts and not yet fired.
RetryPending(s) ==
    CopiesIn(Timer("startRetry", NoText), s.timers)
        + CopiesIn(Timer("wdRetry", NoText), s.timers)

\* C24: a start attempt that fails does not start the recognizer at once
\* but sets one backoff timer, and the retry comes from that timer; no
\* retry falls within the backoff of another failed attempt, that is, two
\* backoff timers are never pending together.
C24_RetryAfterBackoff ==
    /\ (rec = "idle" /\ ~isListening) =>
          LET after == StartContinuousListening(St, TRUE)
          IN  /\ after.rec = "idle"
              /\ RetryPending(after) = RetryPending(St) + 1
    /\ LET after == WdRestartHandler(St, TRUE)
       IN  after # St => /\ after.rec = rec
                         /\ RetryPending(after) = RetryPending(St) + 1
    /\ RetryPending(St) <= 1


\* C25: a recognizer start() that a watchdog tick issues (from its 200 ms
\* timer) comes after a stop() issued by that same tick: the tick calls
\* stop(), which it does when isListening is set, before any start.
C25_WatchdogStopsFirst ==
    mobileRestartInterval =>
        LET tick == WatchdogTickHandler(St)
            after == WdRestartHandler(
                         Fired(tick, Timer("wdRestart", NoText)), FALSE)
        IN  (tick # St /\ after.rec = "starting" /\ rec # "starting")
                => isListening


\* What is heard is an accepted stop command.
IsStopCommand(u) ==
    /\ ShouldAccept(u)
    /\ ~Includes(ToLowerCase(Trim(Raw(u))), << "help" >>)
    /\ \E w \in {"stop", "quiet"} :
            Includes(ToLowerCase(Trim(Raw(u))), << w >>)

C27_StopBeforeHandling ==
    rec \in {"active", "stopping"} =>
        \A u \in Utterances :
            ShouldAccept(u) =>
                LET after == OnResultFinal(St, Raw(u))
                    stopped == RecStop(St)
                IN  /\ stopped.rec = "stopping"
                    /\ after = HandleVoiceCommand(stopped, Trim(Raw(u)))
                    /\ after.rec = "stopping"

C27_Witness ==
    /\ rec = "stopping"
    /\ isListening
    /\ queries # {}
    /\ speakCalls = {}
    /\ ~PlaybackActive


\* C28: a recognizer result whose last entry is interim is not evaluated by
\* the filter and changes nothing, whatever its transcript: the recognizer
\* is not stopped, no query is issued and nothing is spoken.
C28_InterimChangesNothing ==
    rec \in {"active", "stopping"} =>
        \A u \in Utterances : OnResultHandler(St, FALSE, Raw(u)) = St

C28_Witness ==
    /\ rec = "active"
    /\ \E u \in Utterances :
          /\ ShouldAccept(u)
          /\ OnResultHandler(St, TRUE, Raw(u)) # St
          /\ OnResultHandler(St, FALSE, Raw(u)) = St


\* C29: an entry leaves the speech queue only when a playback has just
\* finished, and it is the oldest entry: in a step that shortens the queue
\* the head is removed, a playback was in progress before the step and
\* none is after it.
C29_DequeueOnlyAfterPlayback ==
    [][Len(speechQueue') < Len(speechQueue)
         => /\ speechQueue' = Tail(speechQueue)
            /\ PlaybackActive
            /\ ~PlaybackActive']_vars


\* A text that went through the speech queue is being played: the queue has
\* not been drained yet.
QueuedBeingPlayed ==
    \E i \in 1..Len(enqLog) :
        \/ utterance = enqLog[i]
        \/ [text |-> enqLog[i], st |-> "playing"] \in audios

\* C30: when a playback has finished with texts in the queue, listening is
\* not resumed before the queue is drained: the recognizer is not started
\* while a text taken from the queue is being played.
C30_DrainBeforeListening ==
    [][(rec # "starting" /\ rec' = "starting") => ~QueuedBeingPlayed]_vars


\* C31: at most one external query is in flight at any time: an accepted
\* transcript that arrives while a query has not resolved starts no second
\* query.
C31_OneQueryInFlight == Cardinality(queries) <= 1


\* C32: speak() called while nothing is playing and the recognizer is
\* listening stops the recognizer and sets isPlaying before any playback
\* starts; isPlaying is still set when speak() waits for its pre-roll,
\* although stopAllAudio() was called in between.
C32_SpeakStopsAndFlags ==
    (~isPlaying /\ ~PlaybackActive /\ isListening /\ MicActive) =>
        \A kind \in {"answer", "help"} :
            LET after == SpeakNew(St, kind)
            IN  /\ after.rec = "stopping"
                /\ after.isPlaying
                /\ [text |-> Text(kind, nextId), pc |-> "preroll"]
                       \in after.speakCalls
                /\ after.utterance = NoText
                /\ \A a \in after.audios : a.st # "playing"

C32_Witness ==
    /\ rec = "stopping"
    /\ isListening
    /\ isPlaying
    /\ ~PlaybackActive
    /\ queries = {}
    /\ \E c \in speakCalls : c.text.kind = "answer" /\ c.pc = "preroll"


\* C33: speak(text) called while isPlaying is true, also during the pre-roll
\* of another speak() call, only appends the text to the tail of the speech
\* queue: no playback starts, the recognizer is not stopped, the current
\* audio is not cancelled and every other field keeps its value.
C33_BusySpeakOnlyQueues ==
    isPlaying =>
        \A kind \in {"answer", "help"} :
            SpeakNew(St, kind) =
                [St EXCEPT !.nextId = @ + 1,
                           !.speechQueue = Append(@, Text(kind, nextId))]

C33_Witness ==
    /\ isPlaying
    /\ \E c \in speakCalls : c.pc = "preroll"
    /\ Len(speechQueue) = 1
    /\ speechQueue[1].kind = "answer"


\* C34: when the restart timer set by recognition.onend fires, it starts the
\* recognizer only if continuous mode is on and no playback is active; if a
\* playback has started or continuous mode was turned off since onend, the
\* timer's callback changes nothing.
C34_AutoRestartChecksAgain ==
    \A tm \in Pending("autoRestart") :
        LET fired == Fired(St, tm)
            after == AutoRestartHandler(fired, FALSE)
        IN  /\ (after.rec = "starting" /\ rec # "starting")
                  => (continuousListening /\ ~isPlaying /\ ~PlaybackActive)
            /\ (~continuousListening \/ isPlaying \/ PlaybackActive)
                  => after = fired


\* How many times text t has started playing.
TimesPlayed(t) == Cardinality({i \in 1..Len(playLog) : playLog[i] = t})

\* C35: no text handed to speak() is played more than once, whatever the
\* interleaving of speak() calls, playback-finished events and the timers
\* that process the queue.
C35_PlayedAtMostOnce ==
    \A i \in 1..Len(playLog) :
        playLog[i].id # 0 => TimesPlayed(playLog[i]) = 1

C35_Witness ==
    /\ Len(playLog) >= 3
    /\ \E i \in 1..Len(enqLog) : TimesPlayed(enqLog[i]) = 1
    /\ speechQueue = << >>


\* C36: a touch or click received while no playback is active changes
\* nothing: the recognizer is neither stopped nor started and
\* continuousListening, isListening, isPlaying and the speech queue keep
\* their values.
C36_TouchIdleNoOp == ~PlaybackActive => HandleTouchControl(St) = St


\* What is heard contains the word w (as a substring).
Says(u, w) == Includes(ToLowerCase(Trim(Raw(u))), << w >>)

\* C37: an accepted command that contains 'help' speaks the help text and
\* issues no query (no frame is captured), also when the command contains
\* 'stop' or 'quiet' as well: help comes first.
C37_HelpFirst ==
    rec \in {"active", "stopping"} =>
        \A u \in Utterances :
            (ShouldAccept(u) /\ Says(u, "help")) =>
                LET after == OnResultFinal(St, Raw(u))
                IN  /\ after.queries = queries
                    /\ after = SpeakNew(RecStop(St), "help")

C37_Witness ==
    /\ heard.done
    /\ Says(heard, "help") /\ Says(heard, "stop")
    /\ rec = "stopping"
    /\ queries = {}
    /\ \E c \in speakCalls : c.text.kind = "help" /\ c.pc = "preroll"

\* C38: at most one watchdog interval is alive at any time, whatever the
\* sequence of startContinuousListening() calls, retries and
\* stopRecognition() calls; the handle is set exactly when one is alive.
C38_OneInterval ==
    /\ intervals <= 1
    /\ mobileRestartInterval <=> intervals = 1

C38_Witness ==
    /\ env.mobile
    /\ intervals = 1
    /\ isListening
    /\ \E i \in 1..Len(playLog) : playLog[i] = Stopped

\* C39: handleStartButtonClick invokes startApp at most once, for any
\* sequence of clicks on the start button and the start screen: once
\* hasStarted is set it stays set and a click changes nothing, and one click
\* delivered to both listeners has the effect of one call (one welcome
\* message, one camera timer, one listen timer).
StartClickOnce ==
    /\ hasStarted => HandleStartButtonClick(St) = St
    /\ HandleStartButtonClick(HandleStartButtonClick(St))
           = HandleStartButtonClick(St)
    /\ ~hasStarted =>
           LET after == HandleStartButtonClick(HandleStartButtonClick(St))
           IN  /\ after.hasStarted
               /\ after.nextId = nextId + 1
               /\ BagCardinality(after.timers) =
                      BagCardinality(timers) + (IF env.recog THEN 2 ELSE 1)

C39_StartAppOnce == []StartClickOnce /\ [][hasStarted => hasStarted']_vars

C39_Witness ==
    /\ env.mobile
    /\ hasStarted
    /\ CopiesIn(Timer("listen", NoText), timers) = 1
    /\ CopiesIn(Timer("camera", NoText), timers) = 1
    /\ nextId = 2

\* C40: startContinuousListening() called while isListening is true changes
\* nothing: recognition.start() is not called, no interval and no retry
\* timer is created, continuousListening keeps its value.  The same holds
\* when the call comes from one of the timers that are pending.
StartCallers == Pending("listen") \cup Pending("settle")
                   \cup Pending("startRetry")

C40_StartWhileListeningNoOp ==
    isListening =>
        \A fail \in BOOLEAN :
            /\ StartContinuousListening(St, fail) = St
            /\ \A tm \in StartCallers :
                   StartContinuousListening(Fired(St, tm), fail) = Fired(St, tm)

C40_Witness ==
    /\ isListening
    /\ rec = "active"
    /\ StartCallers # {}

====
